---------------------------- MODULE Spec2Model ----------------------------
(***************************************************************************)
(* Model of the openclaw-pipedrive plugin (src/index.ts).                  *)
(*                                                                         *)
(* The plugin has three parts: the skill-file scaffolder                   *)
(* (setupSkillTemplate), the registration routine (plugin.register) and    *)
(* the tools it registers, each of which maps a parameter object to one    *)
(* HTTP request through pipedriveRequest.                                  *)
(*                                                                         *)
(* Text is modelled as a sequence of atoms.  A literal of the source       *)
(* ("/deals/", "Pipedrive API error (") is one atom; text that comes from   *)
(* a parameter, the configuration or the remote service is a sequence of   *)
(* one-character atoms, so that coercion, encoding and parsing are         *)
(* computed character by character.                                        *)
(***************************************************************************)
EXTENDS Integers, Sequences, FiniteSets

VARIABLES
    fs,            \* the skill directory: [dir, skill, latest]
    pluginConfig,  \* api.pluginConfig, the host's configuration object
    registered,    \* the tools registered by the last run of register, in order
    closure,       \* what register captured for the tools: base URLs and domain
    last,          \* record of the most recent operation (inputs and outcome)
    flights        \* the invocations in flight at once, one per slot of the host

vars == <<fs, pluginConfig, registered, closure, last, flights>>

-----------------------------------------------------------------------------
(* Generic helpers on sequences.                                           *)

Range(s) == {s[i] : i \in 1..Len(s)}

\* needle occurs in hay as a contiguous run of atoms
IsInfix(needle, hay) ==
    \E i \in 0..(Len(hay) - Len(needle)) :
        SubSeq(hay, i + 1, i + Len(needle)) = needle

\* index of the first occurrence of atom c in s, 0 when there is none
RECURSIVE IndexFrom(_, _, _)
IndexFrom(s, c, i) ==
    IF i > Len(s) THEN 0
    ELSE IF s[i] = c THEN i
    ELSE IndexFrom(s, c, i + 1)

IndexOf(s, c) == IndexFrom(s, c, 1)

\* split s at every occurrence of atom c
RECURSIVE Split(_, _)
Split(s, c) ==
    LET i == IndexOf(s, c) IN
    IF i = 0 THEN <<s>>
    ELSE <<SubSeq(s, 1, i - 1)>> \o Split(SubSeq(s, i + 1, Len(s)), c)

-----------------------------------------------------------------------------
(* JavaScript values.  Every value is a record of the same shape so that   *)
(* any two can be compared; only the field selected by t is meaningful.    *)
(* An array value holds objects; an object is a sequence of members        *)
(* [k, v] in insertion order.                                              *)

JUndef   == [t |-> "undefined", n |-> 0, s |-> <<>>, b |-> FALSE, a |-> <<>>]
JNull    == [t |-> "null",      n |-> 0, s |-> <<>>, b |-> FALSE, a |-> <<>>]
JNum(n)  == [t |-> "number",    n |-> n, s |-> <<>>, b |-> FALSE, a |-> <<>>]
JStr(s)  == [t |-> "string",    n |-> 0, s |-> s,    b |-> FALSE, a |-> <<>>]
JBool(b) == [t |-> "boolean",   n |-> 0, s |-> <<>>, b |-> b,     a |-> <<>>]
JArr(a)  == [t |-> "array",     n |-> 0, s |-> <<>>, b |-> FALSE, a |-> a]
JObj(o)  == [t |-> "object",    n |-> 0, s |-> <<>>, b |-> FALSE, a |-> <<o>>]

Member(k, v) == [k |-> k, v |-> v]

Keys(obj) == {obj[i].k : i \in 1..Len(obj)}

\* obj.k: the value of member k, undefined when the object has no such member
Get(obj, k) ==
    IF k \in Keys(obj)
    THEN (CHOOSE m \in Range(obj) : m.k = k).v
    ELSE JUndef

\* the rest pattern { k1, k2, ...rest }: the members whose key is not taken
Without(obj, ks) == SelectSeq(obj, LAMBDA m : m.k \notin ks)

\* obj[k] = v: assignment replaces in place or appends
Assign(obj, k, v) ==
    IF k \in Keys(obj)
    THEN [i \in 1..Len(obj) |-> IF obj[i].k = k THEN Member(k, v) ELSE obj[i]]
    ELSE Append(obj, Member(k, v))

\* JavaScript truthiness (ToBoolean)
Truthy(v) ==
    CASE v.t = "undefined" -> FALSE
      [] v.t = "null"      -> FALSE
      [] v.t = "number"    -> v.n # 0
      [] v.t = "string"    -> v.s # <<>>
      [] v.t = "boolean"   -> v.b
      [] OTHER             -> TRUE

DigitChar == <<"0", "1", "2", "3", "4", "5", "6", "7", "8", "9">>

RECURSIVE Digits(_)
Digits(n) ==
    IF n < 10 THEN <<DigitChar[n + 1]>>
    ELSE Digits(n \div 10) \o <<DigitChar[(n % 10) + 1]>>

\* Number::toString for the integers of the model
NumberToString(n) == IF n < 0 THEN <<"-">> \o Digits(0 - n) ELSE Digits(n)

\* String(value) and template-literal interpolation ${value}
StringOf(v) ==
    CASE v.t = "undefined" -> <<"u", "n", "d", "e", "f", "i", "n", "e", "d">>
      [] v.t = "null"      -> <<"n", "u", "l", "l">>
      [] v.t = "number"    -> NumberToString(v.n)
      [] v.t = "string"    -> v.s
      [] v.t = "boolean"   -> IF v.b THEN <<"t", "r", "u", "e">>
                                     ELSE <<"f", "a", "l", "s", "e">>
      [] OTHER             -> <<"[object Object]">>

-----------------------------------------------------------------------------
(* UTF-8.  Characters: "a", "b" (one byte each) and "e'" (two bytes,       *)
(* C3 A9).  Bytes: "a", "b", "C3", "A9".  A byte sequence that is not       *)
(* well formed decodes to the replacement character "FFFD".                *)

Utf8EncodeChar(c) == IF c = "e'" THEN <<"C3", "A9">> ELSE <<c>>

\* writeFileSync(path, string): the string is written as UTF-8
RECURSIVE Utf8Encode(_)
Utf8Encode(str) ==
    IF str = <<>> THEN <<>>
    ELSE Utf8EncodeChar(Head(str)) \o Utf8Encode(Tail(str))

\* a variant that reads each byte as one character (a latin1 read)
Latin1Decode(bytes) == bytes

\* readFileSync(path, "utf-8"): decoding, ill-formed bytes become U+FFFD
RECURSIVE Utf8Decode(_)
Utf8Decode(bytes) ==
    IF bytes = <<>> THEN <<>>
    ELSE IF Head(bytes) = "C3"
         THEN IF Len(bytes) >= 2 /\ bytes[2] = "A9"
              THEN <<"e'">> \o Utf8Decode(SubSeq(bytes, 3, Len(bytes)))
              ELSE <<"FFFD">> \o Utf8Decode(Tail(bytes))
    ELSE IF Head(bytes) = "A9"
         THEN <<"FFFD">> \o Utf8Decode(Tail(bytes))
    ELSE <<Head(bytes)>> \o Utf8Decode(Tail(bytes))

-----------------------------------------------------------------------------
(* The skill directory.  A file is [exists, bytes]; bytes is <<>> when the *)
(* file does not exist.                                                    *)

NoFile == [exists |-> FALSE, bytes |-> <<>>]
File(bytes) == [exists |-> TRUE, bytes |-> bytes]

\* the bundled SKILL_TEMPLATE of a plugin version: well-formed text
Templates == {<<"a">>, <<"a", "b">>, <<"e'">>}

\* what a user may have left in SKILL.md, ill-formed UTF-8 included
UserContents == {<<>>, <<"a">>, <<"b">>, <<"C3", "A9">>, <<"C3">>}

\* what an earlier run or the installer may have left in SKILL.md.latest
StaleContents == {<<"b">>}

\* where a filesystem call of one run may fail
Faults == {"none", "mkdir", "access", "read", "write"}

Log(level, msg) == [level |-> level, msg |-> msg]

\* a failed writeFileSync leaves the target untouched (open failed) or
\* truncated to the first n bytes of the data (write failed part way)
FailedWrite(old, data, n) == IF n < 0 THEN old ELSE File(SubSeq(data, 1, n))


\* the three paths of the scaffolder, as log text
SkillFilePath  == "~/.clawdbot/skills/pipedrive/SKILL.md"
LatestFilePath == "~/.clawdbot/skills/pipedrive/SKILL.md.latest"

\* a variant that never finds the file
ExistsSyncNever(f, fault) == FALSE

\* existsSync(skillFile): never throws, answers false when the path cannot
\* be examined
ExistsSync(f, fault) == f.skill.exists /\ fault # "access"

\* a variant that appends to the target instead of replacing it
WriteFileSyncAppend(old, data, fault, cut) ==
    IF fault = "access" THEN old
    ELSE IF fault = "write" THEN FailedWrite(old, data, cut)
    ELSE File(old.bytes \o data)

\* writeFileSync(target, data): the target holds exactly data afterwards;
\* a failing call leaves what FailedWrite says.  "access" makes the open fail.
WriteFileSync(old, data, fault, cut) ==
    IF fault = "access" THEN old
    ELSE IF fault = "write" THEN FailedWrite(old, data, cut)
    ELSE File(data)

WriteFails(fault) == fault \in {"access", "write"}

SkillWarning == Log("warn", <<"[pipedrive] Could not set up skill template:">>)

\* the result of the try block: the directory afterwards, the console
\* lines, and whether a filesystem call threw
Tried(f, log, error) == [fs |-> f, log |-> log, error |-> error]

\* a variant that also drops the template beside the new SKILL.md
CreateSkillAndLatest(f, data, fault, cut) ==
    Tried([f EXCEPT !.skill  = WriteFileSync(f.skill, data, fault, cut),
                    !.latest = WriteFileSync(f.latest, data, fault, cut)],
          <<>>, WriteFails(fault))

\* the branch of a missing SKILL.md: write the template, report creation
CreateSkill(f, data, fault, cut) ==
    Tried([f EXCEPT !.skill = WriteFileSync(f.skill, data, fault, cut)],
          IF WriteFails(fault) THEN <<>>
          ELSE << Log("log", <<"[pipedrive] Created skill template: ", SkillFilePath>>),
                  Log("log", <<"[pipedrive] Customize this file with your organization's workflows.">>) >>,
          WriteFails(fault))

\* the branch of a SKILL.md that differs: write the template beside it
OfferLatest(f, data, fault, cut) ==
    Tried([f EXCEPT !.latest = WriteFileSync(f.latest, data, fault, cut)],
          IF WriteFails(fault) THEN <<>>
          ELSE << Log("log", <<"[pipedrive] Skill file exists: ", SkillFilePath, " (not modified)">>),
                  Log("log", <<"[pipedrive] New template available: ", LatestFilePath>>),
                  Log("log", <<"[pipedrive] Compare with: diff ~/.clawdbot/skills/pipedrive/SKILL.md{,.latest}">>) >>,
          WriteFails(fault))

\* the try block of setupSkillTemplate on directory state f with bundled
\* template tpl.  fault names the filesystem call that fails in this run,
\* if it is made; cut is how much of the data a failing write leaves
\* behind (-1: nothing, the target is untouched).
SkillBody(f, tpl, fault, cut) ==
    IF fault = "mkdir"
    THEN Tried(f, <<>>, TRUE)
    ELSE
      LET f1 == [f EXCEPT !.dir = TRUE] IN
      IF ~ExistsSync(f1, fault)
      THEN CreateSkill(f1, Utf8Encode(tpl), fault, cut)
      ELSE IF fault = "read"
           THEN Tried(f1, <<>>, TRUE)
           ELSE IF Utf8Decode(f1.skill.bytes) # tpl
                THEN OfferLatest(f1, Utf8Encode(tpl), fault, cut)
                ELSE Tried(f1, <<>>, FALSE)

\* a variant without the catch: the filesystem error leaves the function
SetupSkillTemplateUncaught(f, tpl, fault, cut) ==
    LET r == SkillBody(f, tpl, fault, cut) IN
    [fs |-> r.fs, log |-> r.log, error |-> r.error, threw |-> r.error]

\* setupSkillTemplate(): the try block, and the catch that turns a thrown
\* filesystem error into a console warning.  threw says whether an error
\* leaves the function; error records whether a filesystem call failed.
SetupSkillTemplate(f, tpl, fault, cut) ==
    LET r == SkillBody(f, tpl, fault, cut) IN
    [fs    |-> r.fs,
     log   |-> IF r.error THEN Append(r.log, SkillWarning) ELSE r.log,
     error |-> r.error,
     threw |-> FALSE]

-----------------------------------------------------------------------------
(* URLSearchParams: a list of name/value pairs.  A name is a sequence of   *)
(* atoms (the parameter names of the tools are single atoms made of        *)
(* unreserved characters, which the serializer leaves as they are); a      *)
(* value is a sequence of characters.                                      *)

QPair(k, v) == [k |-> k, v |-> v]

\* application/x-www-form-urlencoded: the characters that are escaped
PercentTable ==
    << <<"&", "2", "6">>, <<"=", "3", "D">>, <<"+", "2", "B">>,
       <<"%", "2", "5">>, <<"#", "2", "3">>, <<"?", "3", "F">>,
       <<"@", "4", "0">>, <<"/", "2", "F">> >>

Escaped == {PercentTable[i][1] : i \in 1..Len(PercentTable)}

FormEncodeChar(c) ==
    IF c = " " THEN <<"+">>
    ELSE IF c \in Escaped
    THEN LET e == CHOOSE i \in 1..Len(PercentTable) : PercentTable[i][1] = c
         IN  <<"%", PercentTable[e][2], PercentTable[e][3]>>
    ELSE <<c>>

RECURSIVE FormEncode(_)
FormEncode(str) ==
    IF str = <<>> THEN <<>>
    ELSE FormEncodeChar(Head(str)) \o FormEncode(Tail(str))

RECURSIVE FormDecode(_)
FormDecode(txt) ==
    IF txt = <<>> THEN <<>>
    ELSE IF Head(txt) = "+" THEN <<" ">> \o FormDecode(Tail(txt))
    ELSE IF /\ Head(txt) = "%"
            /\ Len(txt) >= 3
            /\ \E i \in 1..Len(PercentTable) :
                   PercentTable[i][2] = txt[2] /\ PercentTable[i][3] = txt[3]
         THEN LET e == CHOOSE i \in 1..Len(PercentTable) :
                           PercentTable[i][2] = txt[2] /\ PercentTable[i][3] = txt[3]
              IN  <<PercentTable[e][1]>> \o FormDecode(SubSeq(txt, 4, Len(txt)))
    ELSE <<Head(txt)>> \o FormDecode(Tail(txt))

\* URLSearchParams.prototype.toString
RECURSIVE QueryToString(_)
QueryToString(list) ==
    IF list = <<>> THEN <<>>
    ELSE LET p == Head(list)
             one == FormEncode(p.k) \o <<"=">> \o FormEncode(p.v)
         IN  IF Len(list) = 1 THEN one
             ELSE one \o <<"&">> \o QueryToString(Tail(list))

\* one name=value piece of a query string
ParsePiece(piece) ==
    LET i == IndexOf(piece, "=") IN
    IF i = 0 THEN QPair(FormDecode(piece), <<>>)
    ELSE QPair(FormDecode(SubSeq(piece, 1, i - 1)),
               FormDecode(SubSeq(piece, i + 1, Len(piece))))

\* the parser of a query string (new URL(...).searchParams, and the remote
\* service's own reading of the URL)
ParseQuery(txt) ==
    LET pieces == SelectSeq(Split(txt, "&"), LAMBDA x : x # <<>>)
    IN  [i \in 1..Len(pieces) |-> ParsePiece(pieces[i])]

\* a variant that appends the pair whether or not the name is present
QueryAppend(list, k, v) == Append(list, QPair(k, v))

\* URLSearchParams.prototype.set: the first pair of that name takes the
\* value and the others of that name are removed; appended when absent
QuerySet(list, k, v) ==
    IF \E i \in 1..Len(list) : list[i].k = k
    THEN LET first == CHOOSE i \in 1..Len(list) :
                          list[i].k = k /\ \A j \in 1..(i - 1) : list[j].k # k
             idx   == SelectSeq([i \in 1..Len(list) |-> i],
                                LAMBDA i : list[i].k # k \/ i = first)
         IN  [n \in 1..Len(idx) |->
                 IF idx[n] = first THEN QPair(k, v) ELSE list[idx[n]]]
    ELSE Append(list, QPair(k, v))

\* the values of name k in a parsed query
QueryValues(list, k) == {list[i].v : i \in {j \in 1..Len(list) : list[j].k = k}}

QueryCount(list, k) == Cardinality({j \in 1..Len(list) : list[j].k = k})

-----------------------------------------------------------------------------
(* The tools, in the order register declares them.  kind selects the body  *)
(* of execute; path is the entity's endpoint; useV1 and method are the     *)
(* options the tool passes to pipedriveRequest ("" when it passes none).   *)

\* a variant in which every update is sent with PATCH
ToolPatchOnly(name, kind, path, useV1, method) ==
    [name |-> name, kind |-> kind, path |-> path, useV1 |-> useV1,
     method |-> IF method = "PUT" THEN "PATCH" ELSE method]

Tool(name, kind, path, useV1, method) ==
    [name |-> name, kind |-> kind, path |-> path, useV1 |-> useV1, method |-> method]

ToolTable ==
    << Tool("pipedrive_search_deals",         "search_status", "/deals",         FALSE, ""),
       Tool("pipedrive_get_deal",             "get",           "/deals",         FALSE, ""),
       Tool("pipedrive_list_deals",           "list",          "/deals",         FALSE, ""),
       Tool("pipedrive_create_deal",          "create",        "/deals",         FALSE, "POST"),
       Tool("pipedrive_update_deal",          "update",        "/deals",         FALSE, "PATCH"),
       Tool("pipedrive_delete_deal",          "delete",        "/deals",         FALSE, "DELETE"),
       Tool("pipedrive_search_persons",       "search",        "/persons",       FALSE, ""),
       Tool("pipedrive_get_person",           "get",           "/persons",       FALSE, ""),
       Tool("pipedrive_list_persons",         "list",          "/persons",       FALSE, ""),
       Tool("pipedrive_create_person",        "create_person", "/persons",       FALSE, "POST"),
       Tool("pipedrive_update_person",        "update_person", "/persons",       FALSE, "PATCH"),
       Tool("pipedrive_delete_person",        "delete",        "/persons",       FALSE, "DELETE"),
       Tool("pipedrive_search_organizations", "search",        "/organizations", FALSE, ""),
       Tool("pipedrive_get_organization",     "get",           "/organizations", FALSE, ""),
       Tool("pipedrive_list_organizations",   "list",          "/organizations", FALSE, ""),
       Tool("pipedrive_create_organization",  "create",        "/organizations", FALSE, "POST"),
       Tool("pipedrive_update_organization",  "update",        "/organizations", FALSE, "PATCH"),
       Tool("pipedrive_delete_organization",  "delete",        "/organizations", FALSE, "DELETE"),
       Tool("pipedrive_list_activities",      "list",          "/activities",    FALSE, ""),
       Tool("pipedrive_get_activity",         "get",           "/activities",    FALSE, ""),
       Tool("pipedrive_create_activity",      "create",        "/activities",    FALSE, "POST"),
       Tool("pipedrive_update_activity",      "update",        "/activities",    FALSE, "PATCH"),
       Tool("pipedrive_delete_activity",      "delete",        "/activities",    FALSE, "DELETE"),
       Tool("pipedrive_list_pipelines",       "list_opt",      "/pipelines",     FALSE, ""),
       Tool("pipedrive_get_pipeline",         "get",           "/pipelines",     FALSE, ""),
       Tool("pipedrive_list_stages",          "list_opt",      "/stages",        FALSE, ""),
       Tool("pipedrive_get_stage",            "get",           "/stages",        FALSE, ""),
       Tool("pipedrive_list_notes",           "list",          "/notes",         TRUE,  ""),
       Tool("pipedrive_get_note",             "get",           "/notes",         TRUE,  ""),
       Tool("pipedrive_create_note",          "create",        "/notes",         TRUE,  "POST"),
       Tool("pipedrive_update_note",          "update",        "/notes",         TRUE,  "PUT"),
       Tool("pipedrive_delete_note",          "delete",        "/notes",         TRUE,  "DELETE"),
       Tool("pipedrive_list_users",           "plain",         "/users",         TRUE,  ""),
       Tool("pipedrive_get_current_user",     "plain",         "/users/me",      TRUE,  ""),
       Tool("pipedrive_get_user",             "get",           "/users",         TRUE,  "") >>

ToolNames == {ToolTable[i].name : i \in 1..Len(ToolTable)}

ToolByName(name) == CHOOSE t \in Range(ToolTable) : t.name = name

-----------------------------------------------------------------------------
(* execute(_id, params) of each kind of tool: the endpoint and the options *)
(* handed to pipedriveRequest.                                             *)

Call(endpoint, method, hasBody, body, useV1) ==
    [endpoint |-> endpoint, method |-> method, hasBody |-> hasBody,
     body |-> body, useV1 |-> useV1]

\* JSON.stringify of an object: members whose value is undefined are left out
JsonStringify(obj) == SelectSeq(obj, LAMBDA m : m.v.t # "undefined")

\* a variant that tests the value for truthiness instead of undefined
RECURSIVE ListQueryFromTruthy(_, _)
ListQueryFromTruthy(entries, query) ==
    IF entries = <<>> THEN query
    ELSE LET e == Head(entries) IN
         ListQueryFromTruthy(Tail(entries),
                             IF Truthy(e.v)
                             THEN QuerySet(query, <<e.k>>, StringOf(e.v))
                             ELSE query)

\* for (const [key, value] of Object.entries(params))
\*   if (value !== undefined) query.set(key, String(value));
RECURSIVE ListQueryFrom(_, _)
ListQueryFrom(entries, query) ==
    IF entries = <<>> THEN query
    ELSE LET e == Head(entries) IN
         ListQueryFrom(Tail(entries),
                       IF e.v # JUndef
                       THEN QuerySet(query, <<e.k>>, StringOf(e.v))
                       ELSE query)

ListQuery(params) == ListQueryFrom(params, <<>>)

\* new URLSearchParams({ term }); if (status) ...; if (limit) ...
SearchQuery(params, withStatus) ==
    LET q0 == <<QPair(<<"term">>, StringOf(Get(params, "term")))>>
        q1 == IF withStatus /\ Truthy(Get(params, "status"))
              THEN QuerySet(q0, <<"status">>, StringOf(Get(params, "status")))
              ELSE q0
    IN  IF Truthy(Get(params, "limit"))
        THEN QuerySet(q1, <<"limit">>, StringOf(Get(params, "limit")))
        ELSE q1

\* [{ value: v, primary: true, label: "work" }]
ContactArray(v) ==
    JArr(<< << Member("value", v),
               Member("primary", JBool(TRUE)),
               Member("label", JStr(<<"w", "o", "r", "k">>)) >> >>)

\* the body of create_person / update_person: taken are the keys the
\* destructuring pattern removes (email and phone, and id on update)
PersonBody(params, taken) ==
    LET email == Get(params, "email")
        phone == Get(params, "phone")
        rest  == Without(params, taken)
        b1    == IF Truthy(email) THEN Assign(rest, "emails", ContactArray(email)) ELSE rest
    IN  IF Truthy(phone) THEN Assign(b1, "phones", ContactArray(phone)) ELSE b1

\* `${path}/${id}`
IdEndpoint(tool, params) == <<tool.path, "/">> \o StringOf(Get(params, "id"))

\* a variant that serializes the whole parameter object
UpdateBodyWhole(params) == params

UpdateBody(params) == Without(params, {"id"})

Execute(tool, params) ==
    CASE tool.kind = "search_status" ->
           Call(<<tool.path, "/search", "?">> \o QueryToString(SearchQuery(params, TRUE)),
                tool.method, FALSE, <<>>, tool.useV1)
      [] tool.kind = "search" ->
           Call(<<tool.path, "/search", "?">> \o QueryToString(SearchQuery(params, FALSE)),
                tool.method, FALSE, <<>>, tool.useV1)
      [] tool.kind = "get" ->
           Call(IdEndpoint(tool, params), tool.method, FALSE, <<>>, tool.useV1)
      [] tool.kind = "delete" ->
           Call(IdEndpoint(tool, params), tool.method, FALSE, <<>>, tool.useV1)
      [] tool.kind = "list" ->
           Call(<<tool.path, "?">> \o QueryToString(ListQuery(params)),
                tool.method, FALSE, <<>>, tool.useV1)
      [] tool.kind = "list_opt" ->
           Call(IF QueryToString(ListQuery(params)) # <<>>
                THEN <<tool.path, "?">> \o QueryToString(ListQuery(params))
                ELSE <<tool.path>>,
                tool.method, FALSE, <<>>, tool.useV1)
      [] tool.kind = "create" ->
           Call(<<tool.path>>, tool.method, TRUE, JsonStringify(params), tool.useV1)
      [] tool.kind = "create_person" ->
           Call(<<tool.path>>, tool.method, TRUE,
                JsonStringify(PersonBody(params, {"email", "phone"})), tool.useV1)
      [] tool.kind = "update" ->
           Call(IdEndpoint(tool, params), tool.method, TRUE,
                JsonStringify(UpdateBody(params)), tool.useV1)
      [] tool.kind = "update_person" ->
           Call(IdEndpoint(tool, params), tool.method, TRUE,
                JsonStringify(PersonBody(params, {"id", "email", "phone"})), tool.useV1)
      [] OTHER ->
           Call(<<tool.path>>, tool.method, FALSE, <<>>, tool.useV1)

-----------------------------------------------------------------------------
(* pipedriveRequest: the URL, the request handed to fetch, and what the    *)
(* response becomes.                                                       *)

\* `https://${domain}.pipedrive.com/api/v2` and .../api/v1
BaseUrlV2(domain) == <<"https://">> \o StringOf(domain) \o <<".pipedrive.com", "/api/v2">>
BaseUrlV1(domain) == <<"https://">> \o StringOf(domain) \o <<".pipedrive.com", "/api/v1">>

\* new URL(text): everything before the first "?" (scheme, host and path),
\* the query after it, and the fragment from the first "#"
UrlParse(text) ==
    LET h      == IndexOf(text, "#")
        noFrag == IF h = 0 THEN text ELSE SubSeq(text, 1, h - 1)
        hash   == IF h = 0 THEN <<>> ELSE SubSeq(text, h, Len(text))
        q      == IndexOf(noFrag, "?")
    IN  [pre    |-> IF q = 0 THEN noFrag ELSE SubSeq(noFrag, 1, q - 1),
         search |-> IF q = 0 THEN <<>> ELSE SubSeq(noFrag, q + 1, Len(noFrag)),
         hash   |-> hash]

\* url.toString()
UrlToString(u) ==
    u.pre \o (IF u.search = <<>> THEN <<>> ELSE <<"?">> \o u.search) \o u.hash

\* a variant that ignores the useV1 option
SelectBaseCurrent(c, call) == c.baseUrlV2

\* const baseUrl = options?.useV1 ? baseUrlV1 : baseUrlV2
SelectBase(c, call) == IF call.useV1 THEN c.baseUrlV1 ELSE c.baseUrlV2

\* the URL of the request: base + endpoint, with api_token set
RequestUrl(c, apiKey, call) ==
    LET u == UrlParse(SelectBase(c, call) \o call.endpoint)
        q == QuerySet(ParseQuery(u.search), <<"api_token">>, StringOf(apiKey))
    IN  UrlToString([u EXCEPT !.search = QueryToString(q)])

\* the request fetch sends; fetch's method is GET when none is given
PipedriveRequest(c, apiKey, call) ==
    [url     |-> RequestUrl(c, apiKey, call),
     method  |-> IF call.method = "" THEN "GET" ELSE call.method,
     headers |-> <<Member("Content-Type", "application/json")>>,
     hasBody |-> call.hasBody,
     body    |-> call.body]

\* a variant that takes every status below 400 for a success
ResOkBelow400(status) == status >= 200 /\ status < 400

\* res.ok
ResOk(status) == status >= 200 /\ status <= 299

\* The JSON texts of the model are objects of literals: "{" "}" and
\* "{" name ":" literal ("," name ":" literal)* "}", with whitespace atoms
\* between the tokens.
JsonSpace    == {" ", "  ", "\n"}
JsonLiterals == {"true", "false", "null", "1", "1.0"}
JsonNames    == {"\"success\"", "\"data\"", "\"id\""}

\* the value a literal denotes
JsonLiteralValue(tok) ==
    CASE tok = "true"  -> JBool(TRUE)
      [] tok = "false" -> JBool(FALSE)
      [] tok = "null"  -> JNull
      [] OTHER         -> JNum(1)

JsonFail == [ok |-> FALSE, value |-> JUndef]

\* the members after "{" or ","; obj holds the members read so far, and a
\* repeated name replaces the value of the earlier member
RECURSIVE JsonParseMembers(_, _)
JsonParseMembers(toks, obj) ==
    IF Len(toks) >= 4 /\ toks[1] \in JsonNames /\ toks[2] = ":" /\ toks[3] \in JsonLiterals
    THEN LET o2 == Assign(obj, toks[1], JsonLiteralValue(toks[3])) IN
         IF toks[4] = "}" /\ Len(toks) = 4 THEN [ok |-> TRUE, value |-> JObj(o2)]
         ELSE IF toks[4] = "," THEN JsonParseMembers(SubSeq(toks, 5, Len(toks)), o2)
         ELSE JsonFail
    ELSE JsonFail

\* res.json(): JSON.parse of the response text
JsonParse(text) ==
    LET toks == SelectSeq(text, LAMBDA t : t \notin JsonSpace) IN
    IF toks = <<"{", "}">> THEN [ok |-> TRUE, value |-> JObj(<<>>)]
    ELSE IF toks # <<>> /\ toks[1] = "{" THEN JsonParseMembers(Tail(toks), <<>>)
    ELSE JsonFail

JsonValid(text) == JsonParse(text).ok

\* the text of a value of the model in JSON
JsonValueText(v) ==
    CASE v.t = "boolean" -> IF v.b THEN "true" ELSE "false"
      [] v.t = "null"    -> "null"
      [] OTHER           -> "1"

\* a variant that leaves out the members whose value is null
RECURSIVE JsonPrettyMembersNoNull(_)
JsonPrettyMembersNoNull(obj) ==
    IF obj = <<>> THEN <<>>
    ELSE IF Head(obj).v = JNull THEN JsonPrettyMembersNoNull(Tail(obj))
    ELSE <<"  ", Head(obj).k, ":", " ", JsonValueText(Head(obj).v)>>
         \o (IF \E i \in 2..Len(obj) : obj[i].v # JNull THEN <<",">> ELSE <<>>)
         \o <<"\n">> \o JsonPrettyMembersNoNull(Tail(obj))

\* the lines of the members, indented by two spaces
RECURSIVE JsonPrettyMembers(_)
JsonPrettyMembers(obj) ==
    IF obj = <<>> THEN <<>>
    ELSE <<"  ", Head(obj).k, ":", " ", JsonValueText(Head(obj).v)>>
         \o (IF Len(obj) > 1 THEN <<",">> ELSE <<>>)
         \o <<"\n">> \o JsonPrettyMembers(Tail(obj))

\* JSON.stringify(data, null, 2) of a parsed object
JsonStringifyPretty(value) ==
    IF JsonPrettyMembers(value.a[1]) = <<>> THEN <<"{", "}">>
    ELSE <<"{", "\n">> \o JsonPrettyMembers(value.a[1]) \o <<"}">>

\* JSON.stringify(await res.json(), null, 2)
JsonPretty(text) == JsonStringifyPretty(JsonParse(text).value)

Envelope(text) ==
    [kind |-> "envelope", content |-> <<[type |-> "text", text |-> text]>>, message |-> <<>>]

Thrown(message) == [kind |-> "error", content |-> <<>>, message |-> message]

ApiErrorMessage(status, text) ==
    <<"Pipedrive API error (">> \o StringOf(JNum(status)) \o <<"): ">> \o text

\* a variant that sends the request again when the response is not ok
AfterFetchRetry(resp) ==
    IF ~ResOk(resp.status) THEN <<"fetch", "res.text">> ELSE <<"res.json">>

\* the calls pipedriveRequest makes on the network once fetch has
\* resolved: the body is read as text for the error, or as JSON
AfterFetch(resp) ==
    IF ~ResOk(resp.status) THEN <<"res.text">> ELSE <<"res.json">>

\* what the invocation ends with, given the response
Outcome(resp) ==
    IF ~ResOk(resp.status)
    THEN Thrown(ApiErrorMessage(resp.status, resp.text))
    ELSE IF JsonValid(resp.text)
    THEN Envelope(JsonPretty(resp.text))
    ELSE Thrown(<<"SyntaxError: Unexpected end of JSON input">>)

-----------------------------------------------------------------------------
(* plugin.register(api)                                                    *)

v2Tools == 22
v1Tools == 6

\* what the functions declared in register capture: the base URLs and
\* domain (the configuration object itself is pluginConfig, captured by
\* reference).  atRegister is history: the configuration object as it was
\* when register read it; no operation reads it.
NoClosure ==
    [baseUrlV2 |-> <<>>, baseUrlV1 |-> <<>>, domain |-> JUndef, atRegister |-> JUndef]

\* a variant that prefers the second operand
OrSecond(a, b) == IF Truthy(b) THEN b ELSE a

\* a || b
Or(a, b) == IF Truthy(a) THEN a ELSE b

\* a variant of the validation that looks at the API key alone
NotConfiguredKeyOnly(apiKey, domain) == ~Truthy(apiKey)

\* !cfg.apiKey || !domain
NotConfigured(apiKey, domain) == ~Truthy(apiKey) \/ ~Truthy(domain)

\* a variant that registers as many tools as the closing log line counts
RegisterToolsLogged == [i \in 1..(v2Tools + v1Tools) |-> ToolTable[i].name]

\* the api.registerTool calls of one run, in order
RegisterTools == [i \in 1..Len(ToolTable) |-> ToolTable[i].name]

\* register on directory state f with configuration cfg (a JavaScript
\* value); tpl, fault and cut as for SkillBody.  outcome is "returned",
\* "threw_fs_error" (an error of the scaffolder left register) or
\* "threw_type_error" (a property of an absent configuration was read).
\* steps are the steps the run went through, in the order of the
\* statements of register: the call of setupSkillTemplate ("scaffold"),
\* the test of apiKey and domain ("validate"), the registerTool calls.
RegisterResult(f, cfg, tpl, fault, cut) ==
    LET r == SetupSkillTemplate(f, tpl, fault, cut) IN
    IF r.threw
    THEN [fs |-> r.fs, registered |-> <<>>, closure |-> NoClosure,
          log |-> r.log, outcome |-> "threw_fs_error", fsError |-> r.error,
          steps |-> <<"scaffold">>]
    ELSE IF cfg.t \in {"undefined", "null"}
    THEN \* cfg.domain on undefined: TypeError
         [fs |-> r.fs, registered |-> <<>>, closure |-> NoClosure,
          log |-> r.log, outcome |-> "threw_type_error", fsError |-> r.error,
          steps |-> <<"scaffold">>]
    ELSE
      LET obj    == cfg.a[1]
          domain == Or(Get(obj, "domain"), Get(obj, "siteUrl"))
      IN
      IF NotConfigured(Get(obj, "apiKey"), domain)
      THEN [fs |-> r.fs, registered |-> <<>>, closure |-> NoClosure,
            log |-> Append(r.log, Log("warn", <<"[pipedrive] Plugin not configured: missing apiKey or domain/siteUrl">>)),
            outcome |-> "returned", fsError |-> r.error,
            steps |-> <<"scaffold", "validate">>]
      ELSE [fs |-> r.fs,
            registered |-> RegisterTools,
            closure |-> [baseUrlV2 |-> BaseUrlV2(domain),
                         baseUrlV1 |-> BaseUrlV1(domain),
                         domain    |-> domain,
                         atRegister |-> cfg],
            log |-> Append(r.log,
                      Log("log", <<"[pipedrive] Registered ">> \o Digits(v2Tools + v1Tools)
                                 \o <<" tools (">> \o Digits(v2Tools) \o <<" v2, ">>
                                 \o Digits(v1Tools) \o <<" v1) for ">>
                                 \o StringOf(domain) \o <<".pipedrive.com">>)),
            outcome |-> "returned", fsError |-> r.error,
            steps |-> <<"scaffold", "validate", "registerTools">>]

-----------------------------------------------------------------------------
(* The inputs of the model.                                                *)

ApiKeyText == <<"k", "1">>

Configs ==
    { JUndef,
      JObj(<< Member("apiKey", JStr(ApiKeyText)), Member("domain", JStr(<<"acme">>)) >>),
      JObj(<< Member("apiKey", JStr(ApiKeyText)), Member("siteUrl", JStr(<<"corp">>)) >>),
      JObj(<< Member("domain", JStr(<<"acme">>)) >>),
      JObj(<< Member("apiKey", JStr(ApiKeyText)), Member("domain", JStr(<<>>)) >>),
      JNull,
      JObj(<< Member("apiKey", JStr(<<>>)), Member("domain", JStr(<<"acme">>)) >>),
      JObj(<< Member("apiKey", JStr(ApiKeyText)), Member("domain", JStr(<<"acme">>)),
              Member("siteUrl", JStr(<<"corp">>)) >>),
      JObj(<< Member("apiKey", JStr(ApiKeyText)), Member("domain", JStr(<<>>)),
              Member("siteUrl", JStr(<<"corp">>)) >>) }

Field(k, vals, opt) == [k |-> k, vals |-> vals, opt |-> opt]

\* every object that gives each field, in order, one of its values, an
\* optional field possibly being left out
RECURSIVE Objects(_)
Objects(fields) ==
    IF fields = <<>> THEN {<<>>}
    ELSE LET f    == Head(fields)
             rest == Objects(Tail(fields))
         IN  {<<Member(f.k, v)>> \o r : v \in f.vals, r \in rest}
               \cup (IF f.opt THEN rest ELSE {})

\* the largest identifier and the largest page size of the model
MaxId    == 42
MaxLimit == 25

Ids        == {JNum(1), JNum(MaxId)}
LimitVals  == {JUndef, JNull, JNum(0), JNum(MaxLimit)}
CursorVals == {JStr(<<>>), JStr(<<"a", "&", "b", "=", " ", "+">>)}
TermVals   == {JStr(<<"x">>), JStr(<<"a", "&", "b">>)}
StatusVals == {JStr(<<>>), JStr(<<"o", "p", "e", "n">>)}
EmailVals  == {JUndef, JStr(<<>>), JStr(<<"a", "@", "b">>)}
PhoneVals  == {JStr(<<>>), JStr(<<"5">>)}
TitleVals  == {JStr(<<"t">>)}
ValueVals  == {JUndef, JNum(0)}

\* the required text field of the entity's schema
TitleKey(tool) ==
    CASE tool.path = "/deals"      -> "title"
      [] tool.path = "/activities" -> "subject"
      [] tool.path = "/notes"      -> "content"
      [] OTHER                     -> "name"

\* the parameter objects a tool is invoked with
ParamSpace(tool) ==
    CASE tool.kind = "search_status" ->
           Objects(<<Field("term", TermVals, FALSE), Field("status", StatusVals, TRUE),
                     Field("limit", {JNum(0), JNum(MaxLimit)}, TRUE)>>)
      [] tool.kind = "search" ->
           Objects(<<Field("term", TermVals, FALSE),
                     Field("limit", {JNum(0), JNum(MaxLimit)}, TRUE)>>)
      [] tool.kind \in {"get", "delete"} ->
           Objects(<<Field("id", Ids, FALSE)>>)
      [] tool.kind \in {"list", "list_opt"} ->
           IF tool.path = "/activities"
           THEN Objects(<<Field("done", {JBool(TRUE), JBool(FALSE)}, TRUE),
                          Field("limit", LimitVals, TRUE),
                          Field("cursor", CursorVals, TRUE)>>)
           ELSE Objects(<<Field("limit", LimitVals, TRUE),
                          Field("cursor", CursorVals, TRUE),
                          Field("api_token", {JStr(<<"z">>)}, TRUE)>>)
      [] tool.kind = "create" ->
           Objects(<<Field(TitleKey(tool), TitleVals, FALSE),
                     Field("value", ValueVals, TRUE)>>)
      [] tool.kind = "create_person" ->
           Objects(<<Field("name", TitleVals, FALSE),
                     Field("emails", {JArr(<<>>)}, TRUE),
                     Field("email", EmailVals, TRUE),
                     Field("phone", PhoneVals, TRUE)>>)
      [] tool.kind = "update" ->
           Objects(<<Field("id", Ids, FALSE),
                     Field(TitleKey(tool), TitleVals, TRUE),
                     Field("value", ValueVals, TRUE)>>)
      [] tool.kind = "update_person" ->
           Objects(<<Field("id", Ids, FALSE),
                     Field("email", EmailVals, TRUE),
                     Field("phone", PhoneVals, TRUE)>>)
      [] OTHER -> {<<>>}

Statuses  == {200, 299, 300, 404}
RespTexts == { <<>>,
               <<"N", "o", "t", " ", "f", "o", "u", "n", "d">>,
               <<"{", "\"success\"", ":", "true", "}">>,
               <<"{", "\"success\"", ":", "true", ",", " ", "\"data\"", ":", "null", "}">>,
               <<"{", "\"id\"", ":", "1.0", "}">> }

Response(status, text) == [status |-> status, text |-> text]

-----------------------------------------------------------------------------
(* The state machine.                                                      *)

NoCall     == Call(<<>>, "", FALSE, <<>>, FALSE)
NoRequest  == [url |-> <<>>, method |-> "", headers |-> <<>>, hasBody |-> FALSE, body |-> <<>>]
NoResponse == Response(0, <<>>)
NoResult   == [kind |-> "none", content |-> <<>>, message |-> <<>>]
NoFs       == [dir |-> FALSE, skill |-> NoFile, latest |-> NoFile]

\* the record of the most recent operation when there is none
Idle ==
    [op |-> "idle", tpl |-> <<>>, fault |-> "none", pre |-> NoFs, log |-> <<>>,
     steps |-> <<>>, fsError |-> FALSE, outcome |-> "none", tool |-> "", params |-> <<>>,
     call |-> NoCall, req |-> NoRequest, net |-> <<>>, resp |-> NoResponse,
     result |-> NoResult, other |-> NoFile]

\* the invocations the host may have in flight at once
MaxFlights == 2

\* a slot of the host with no invocation in it
NoFlight ==
    [st |-> "free", tool |-> "", params |-> <<>>, req |-> NoRequest,
     resp |-> NoResponse, result |-> NoResult]

InitialFs ==
    {NoFs} \cup
    { [dir |-> TRUE, skill |-> sk, latest |-> la] :
        sk \in {NoFile} \cup {File(b) : b \in UserContents},
        la \in {NoFile} \cup {File(b) : b \in StaleContents} }

Init ==
    /\ fs \in InitialFs
    /\ pluginConfig \in Configs
    /\ registered = <<>>
    /\ closure = NoClosure
    /\ last = Idle
    /\ flights = [i \in 1..MaxFlights |-> NoFlight]

\* what a failing write may leave behind: nothing, or a proper prefix
Cuts(tpl, fault) ==
    IF fault = "write" THEN -1..(Len(Utf8Encode(tpl)) - 1) ELSE {-1}

\* the host loads the plugin: one run of register, with the bundled
\* template of the installed version; fault and cut say which filesystem
\* call fails in this run and what a failing write leaves behind
RegisterWith(tpl, fault, cut) ==
    LET r == RegisterResult(fs, pluginConfig, tpl, fault, cut) IN
    /\ fs' = r.fs
    /\ registered' = r.registered
    /\ closure' = r.closure
    /\ last' = [Idle EXCEPT !.op = "register", !.tpl = tpl, !.fault = fault,
                            !.pre = fs, !.log = r.log, !.fsError = r.fsError,
                            !.outcome = r.outcome, !.steps = r.steps]
    /\ UNCHANGED <<pluginConfig, flights>>

Register ==
    /\ last.op \in {"idle", "register"}
    /\ \E tpl \in Templates, fault \in Faults :
         \E cut \in Cuts(tpl, fault) : RegisterWith(tpl, fault, cut)

\* the host invokes a registered tool: execute runs up to the await of fetch
Invoke ==
    /\ last.op \in {"idle", "register"}
    /\ \E name \in Range(registered) :
         \E params \in ParamSpace(ToolByName(name)) :
           LET tool == ToolByName(name)
               call == Execute(tool, params)
               key  == Get(pluginConfig.a[1], "apiKey")
           IN  last' = [Idle EXCEPT !.op = "invoke", !.outcome = "pending",
                                    !.tool = name, !.params = params,
                                    !.call = call,
                                    !.req = PipedriveRequest(closure, key, call),
                                    !.net = <<"fetch">>]
    /\ UNCHANGED <<fs, pluginConfig, registered, closure, flights>>

\* the remote service answers and the invocation ends
Respond ==
    /\ last.op = "invoke" /\ last.outcome = "pending"
    /\ \E status \in Statuses, text \in RespTexts :
         last' = [last EXCEPT !.outcome = "done",
                              !.resp = Response(status, text),
                              !.net = last.net \o AfterFetch(Response(status, text)),
                              !.result = Outcome(Response(status, text))]
    /\ UNCHANGED <<fs, pluginConfig, registered, closure, flights>>

\* the host takes the result; nothing of the invocation remains
Settle ==
    /\ last.op = "invoke" /\ last.outcome = "done"
    /\ last' = Idle
    /\ UNCHANGED <<fs, pluginConfig, registered, closure, flights>>

Next == Register \/ Invoke \/ Respond \/ Settle

\* the whole plugin: any skill directory, any run of register, any invocation
Spec == Init /\ [][Next]_vars

\* The scaffolder and registration alone: every skill directory, every
\* configuration, every bundled template and every filesystem fault, and
\* no tool invocation.
NextScaffold == Register

SpecScaffold == Init /\ [][NextScaffold]_vars

\* setupSkillTemplate step by step, beside another process that writes
\* SKILL.md (an editor, the installer, a second host).  Each filesystem
\* call of the scaffolder is one step; last.outcome says where the run
\* stands and last.other is what the other process wrote.
OtherContents == {<<"b">>, <<"u">>}

\* mkdirSync(skillDir, { recursive: true }) and existsSync(skillFile)
ScaffoldCheck ==
    /\ last.op = "idle"
    /\ \E tpl \in Templates :
         LET f1 == [fs EXCEPT !.dir = TRUE] IN
         /\ fs' = f1
         /\ last' = [last EXCEPT !.op = "scaffold", !.tpl = tpl, !.pre = fs,
                                 !.outcome = IF ExistsSync(f1, "none")
                                             THEN "found" ELSE "missing"]
    /\ UNCHANGED <<pluginConfig, registered, closure, flights>>

\* writeFileSync(skillFile, SKILL_TEMPLATE) and the two console lines
ScaffoldWrite ==
    /\ last.op = "scaffold" /\ last.outcome = "missing"
    /\ LET r == CreateSkill(fs, Utf8Encode(last.tpl), "none", -1) IN
         /\ fs' = r.fs
         /\ last' = [last EXCEPT !.outcome = "created", !.log = r.log]
    /\ UNCHANGED <<pluginConfig, registered, closure, flights>>

\* readFileSync(skillFile, "utf-8") and the comparison with the template
ScaffoldRead ==
    /\ last.op = "scaffold" /\ last.outcome = "found"
    /\ last' = [last EXCEPT !.outcome = IF Utf8Decode(fs.skill.bytes) # last.tpl
                                        THEN "differs" ELSE "same"]
    /\ UNCHANGED <<fs, pluginConfig, registered, closure, flights>>

\* writeFileSync(latestFile, SKILL_TEMPLATE) and the three console lines
ScaffoldOffer ==
    /\ last.op = "scaffold" /\ last.outcome = "differs"
    /\ LET r == OfferLatest(fs, Utf8Encode(last.tpl), "none", -1) IN
         /\ fs' = r.fs
         /\ last' = [last EXCEPT !.outcome = "offered", !.log = r.log]
    /\ UNCHANGED <<pluginConfig, registered, closure, flights>>

\* the other process writes SKILL.md, once, at any point of the run
OtherWrite ==
    /\ last.op \in {"idle", "scaffold"}
    /\ fs.dir
    /\ ~last.other.exists
    /\ \E c \in OtherContents :
         /\ fs' = [fs EXCEPT !.skill = File(c)]
         /\ last' = [last EXCEPT !.other = File(c)]
    /\ UNCHANGED <<pluginConfig, registered, closure, flights>>

\* The scaffolder step by step beside the other process.
NextRace == ScaffoldCheck \/ ScaffoldWrite \/ ScaffoldRead \/ ScaffoldOffer \/ OtherWrite

SpecRace == Init /\ [][NextRace]_vars

\* install.sh.  The script runs under set -e: the first failing command
\* ends it.  fault names the command that fails in this run: the plugin
\* installation ("npm"), mkdir -p ("mkdir"), curl before any byte is
\* written ("curl"), or curl part way through the download ("partial").
InstallFaults == {"none", "npm", "mkdir", "curl", "partial"}

\* what the template URL may answer with
Downloads == {<<"a">>, <<"a", "b">>}

\* curl -sL url -o target: the target holds the download afterwards; a
\* transfer that breaks leaves the bytes that arrived
Curl(old, data, fault) ==
    IF fault = "curl" THEN old
    ELSE IF fault = "partial" THEN File(SubSeq(data, 1, Len(data) - 1))
    ELSE File(data)

\* step 2 of install.sh on directory state f
InstallSh(f, data, fault) ==
    IF fault \in {"npm", "mkdir"} THEN f
    ELSE LET f1 == [f EXCEPT !.dir = TRUE] IN
         IF f1.skill.exists
         THEN [f1 EXCEPT !.latest = Curl(f1.latest, data, fault)]
         ELSE [f1 EXCEPT !.skill  = Curl(f1.skill, data, fault)]

\* the user runs the installer
Install ==
    /\ last.op \in {"idle", "install"}
    /\ \E data \in Downloads, fault \in InstallFaults :
         /\ fs' = InstallSh(fs, data, fault)
         /\ last' = [Idle EXCEPT !.op = "install", !.tpl = data, !.fault = fault,
                                 !.pre = fs]
    /\ UNCHANGED <<pluginConfig, registered, closure, flights>>

\* The installer alone, on every skill directory.
NextInstall == Install

SpecInstall == Init /\ [][NextInstall]_vars

\* The tools alone.  No tool reads the skill directory, so the machine
\* starts on a fresh one and every run of register is of one plugin
\* version, without filesystem faults.
InstalledTemplate == <<"a">>

InitTools == Init /\ fs = NoFs

RegisterInstalled ==
    /\ last.op \in {"idle", "register"}
    /\ RegisterWith(InstalledTemplate, "none", -1)

\* the values the host may write into the configuration object
RotatedKey  == <<"k", "2">>
MovedTenant == <<"moved">>

Mutations(obj) ==
    { Assign(obj, "apiKey",  JStr(RotatedKey)),
      Assign(obj, "domain",  JStr(MovedTenant)),
      Assign(obj, "siteUrl", JStr(MovedTenant)) }

\* the host writes a field of the configuration object it handed to
\* register, after register has returned and registered the tools
Mutate ==
    /\ last.op \in {"idle", "register"}
    /\ registered # <<>>
    /\ pluginConfig \in Configs
    /\ \E obj \in Mutations(pluginConfig.a[1]) : pluginConfig' = JObj(obj)
    /\ UNCHANGED <<fs, registered, closure, last, flights>>

NextTools == RegisterInstalled \/ Invoke \/ Respond \/ Settle

SpecTools == InitTools /\ [][NextTools]_vars

\* a variant in which the error of one invocation is kept where the
\* others find it
FlightOutcomeShared(fl, i, resp) ==
    IF \E j \in DOMAIN fl : j # i /\ fl[j].result.kind = "error"
    THEN (CHOOSE r \in {fl[j].result : j \in {k \in DOMAIN fl : k # i /\ fl[k].result.kind = "error"}} : TRUE)
    ELSE Outcome(resp)

\* what invocation i ends with: res, error and data are locals of its own
\* call of pipedriveRequest and execute
FlightOutcome(fl, i, resp) == Outcome(resp)

\* the invocations and responses of the concurrent runs
FlightCalls ==
    { [tool |-> "pipedrive_get_deal",    params |-> <<Member("id", JNum(1))>>],
      [tool |-> "pipedrive_update_note",
       params |-> <<Member("id", JNum(MaxId)), Member("content", JStr(<<"t">>))>>],
      [tool |-> "pipedrive_list_deals",  params |-> <<Member("limit", JNum(0))>>] }

FlightResponses ==
    { Response(200, <<"{", "\"success\"", ":", "true", "}">>),
      Response(404, <<"N", "o", "t", " ", "f", "o", "u", "n", "d">>),
      Response(200, <<>>) }

\* the host invokes a registered tool while others may be in flight:
\* execute runs up to the await of fetch
Start(i) ==
    /\ flights[i].st = "free"
    /\ \E c \in FlightCalls :
         /\ c.tool \in Range(registered)
         /\ flights' = [flights EXCEPT ![i] =
               [NoFlight EXCEPT !.st = "pending", !.tool = c.tool, !.params = c.params,
                                !.req = PipedriveRequest(closure,
                                          Get(pluginConfig.a[1], "apiKey"),
                                          Execute(ToolByName(c.tool), c.params))]]
    /\ UNCHANGED <<fs, pluginConfig, registered, closure, last>>

\* the response of invocation i arrives and the invocation ends
Finish(i) ==
    /\ flights[i].st = "pending"
    /\ \E resp \in FlightResponses :
         flights' = [flights EXCEPT ![i] =
               [@ EXCEPT !.st = "done", !.resp = resp,
                         !.result = FlightOutcome(flights, i, resp)]]
    /\ UNCHANGED <<fs, pluginConfig, registered, closure, last>>

\* the host takes the result of invocation i; the slot is free again
Collect(i) ==
    /\ flights[i].st = "done"
    /\ flights' = [flights EXCEPT ![i] = NoFlight]
    /\ UNCHANGED <<fs, pluginConfig, registered, closure, last>>

StartAny   == \E i \in 1..MaxFlights : Start(i)
FinishAny  == \E i \in 1..MaxFlights : Finish(i)
CollectAny == \E i \in 1..MaxFlights : Collect(i)

\* The tools under a host that has several invocations in flight.
NextConcurrent == RegisterInstalled \/ StartAny \/ FinishAny \/ CollectAny

SpecConcurrent == InitTools /\ [][NextConcurrent]_vars

\* The tools under a host that changes the configuration object between
\* registration and the requests.
NextHost == RegisterInstalled \/ Mutate \/ Invoke

SpecHost == InitTools /\ [][NextHost]_vars

-----------------------------------------------------------------------------
(* Properties of the tools, checked under SpecTools.                       *)

UpdateToolNames ==
    {"pipedrive_update_deal", "pipedrive_update_person", "pipedrive_update_organization",
     "pipedrive_update_activity", "pipedrive_update_note"}

ListToolNames ==
    {"pipedrive_list_deals", "pipedrive_list_persons", "pipedrive_list_organizations",
     "pipedrive_list_activities", "pipedrive_list_pipelines", "pipedrive_list_stages",
     "pipedrive_list_notes"}

PersonToolNames == {"pipedrive_create_person", "pipedrive_update_person"}

LegacyToolNames ==
    {"pipedrive_list_notes", "pipedrive_get_note", "pipedrive_create_note",
     "pipedrive_update_note", "pipedrive_delete_note",
     "pipedrive_list_users", "pipedrive_get_current_user", "pipedrive_get_user"}

Invoked == last.op = "invoke"

\* C1: for every update tool and every parameter object, id is no key of
\* the request body (nor of the query); it appears only in the URL path,
\* which is <base>/<entity>/<id>.
C1_UpdateIdOnlyInPath ==
    (Invoked /\ last.tool \in UpdateToolNames) =>
        LET u == UrlParse(last.req.url) IN
        /\ last.req.hasBody
        /\ "id" \notin Keys(last.req.body)
        /\ QueryCount(ParseQuery(u.search), <<"id">>) = 0
        /\ SubSeq(u.pre, 5, Len(u.pre))
             = <<ToolByName(last.tool).path, "/">> \o StringOf(Get(last.params, "id"))

\* an update with a two-digit id and another field, which is in the body
C1_Witness ==
    /\ Invoked /\ last.tool \in UpdateToolNames
    /\ Get(last.params, "id") = JNum(MaxId)
    /\ Keys(last.req.body) # {}
    /\ Keys(last.req.body) = Keys(last.params) \ {"id"}

\* the parameters that were provided: present and not undefined
ProvidedKeys(params) == {k \in Keys(params) : Get(params, k) # JUndef}

\* C2: for every list tool and every parameter object, the query string
\* the tool builds holds key k exactly when parameter k was provided (is
\* not undefined), once, with the string coercion of its value.
C2_ListQueryExactlyProvided ==
    (Invoked /\ last.tool \in ListToolNames) =>
        LET q == ParseQuery(UrlParse(last.call.endpoint).search) IN
        /\ \A k \in ProvidedKeys(last.params) :
             /\ QueryCount(q, <<k>>) = 1
             /\ QueryValues(q, <<k>>) = {StringOf(Get(last.params, k))}
        /\ \A i \in 1..Len(q) :
             \E k \in ProvidedKeys(last.params) : q[i].k = <<k>>

\* a list call with an undefined limit, a boolean and a cursor made of
\* characters the query syntax reserves
C2_Witness ==
    /\ Invoked /\ last.tool = "pipedrive_list_activities"
    /\ "limit" \in Keys(last.params) /\ Get(last.params, "limit") = JUndef
    /\ Get(last.params, "done") = JBool(FALSE)
    /\ Get(last.params, "cursor") = JStr(<<"a", "&", "b", "=", " ", "+">>)

\* [{ value: v, primary: true, label: "work" }], written out
WorkEntry(v) ==
    JArr(<< << Member("value", v), Member("primary", JBool(TRUE)),
               Member("label", JStr(<<"w", "o", "r", "k">>)) >> >>)

\* C3: for create_person and update_person, whenever an email (phone)
\* string is given the body holds emails (phones) equal to one entry
\* {value, primary: true, label: "work"}, and the body never holds a
\* top-level email or phone.  The code does not do this for the empty string.
C3_ContactShimForEveryString ==
    (Invoked /\ last.tool \in PersonToolNames) =>
        /\ Get(last.params, "email").t = "string"
             => Get(last.req.body, "emails") = WorkEntry(Get(last.params, "email"))
        /\ Get(last.params, "phone").t = "string"
             => Get(last.req.body, "phones") = WorkEntry(Get(last.params, "phone"))
        /\ "email" \notin Keys(last.req.body)
        /\ "phone" \notin Keys(last.req.body)

\* C4: every request of a notes or users tool targets /api/v1 and every
\* request of any other tool targets /api/v2, whatever the parameters.
C4_VersionRouting ==
    Invoked =>
        /\ Len(last.req.url) >= 4
        /\ last.req.url[1] = "https://"
        /\ last.req.url[3] = ".pipedrive.com"
        /\ last.req.url[4] = (IF last.tool \in LegacyToolNames THEN "/api/v1" ELSE "/api/v2")

\* a notes tool called with parameters, routed to /api/v1
C4_Witness ==
    /\ Invoked /\ last.tool = "pipedrive_list_notes"
    /\ Keys(last.params) = {"limit", "cursor", "api_token"}
    /\ last.req.url[4] = "/api/v1"

NonSuccess(status) == status < 200 \/ status > 299

\* C5: when the remote service answers with a non-2xx status the
\* invocation fails, returns no content envelope, and the message of the
\* error holds the status code and the raw body text.
C5_NonSuccessThrows ==
    (Invoked /\ last.outcome = "done" /\ NonSuccess(last.resp.status)) =>
        /\ last.result.kind = "error"
        /\ last.result.content = <<>>
        /\ IsInfix(Digits(last.resp.status), last.result.message)
        /\ IsInfix(last.resp.text, last.result.message)

\* status 404 with body "Not found"
C5_Witness ==
    /\ Invoked /\ last.outcome = "done"
    /\ last.resp = Response(404, <<"N", "o", "t", " ", "f", "o", "u", "n", "d">>)
    /\ last.result.kind = "error"

-----------------------------------------------------------------------------
(* Properties of the scaffolder and of register, checked under             *)
(* SpecScaffold.  last.pre is the directory before the run, fs after it.   *)

Ran == last.op = "register"

\* the run reported a filesystem error
WarnedFs == SkillWarning \in Range(last.log)

\* C6: over any sequence of runs, with any bundled template, a SKILL.md
\* that existed before a run has the same bytes after it; SKILL.md is
\* written only by a run that found it absent.
C6_ExistingSkillKept ==
    (Ran /\ last.pre.skill.exists) => fs.skill = last.pre.skill

\* a run on an existing, differing SKILL.md that wrote the .latest sibling
C6_Witness ==
    /\ Ran /\ last.pre.skill.exists
    /\ Utf8Decode(last.pre.skill.bytes) # last.tpl
    /\ fs.latest # last.pre.latest

\* C7: when no SKILL.md exists (and no filesystem call of the run fails),
\* the run creates the directory if needed, leaves SKILL.md with exactly
\* the bundled template, reports the creation, and creates no .latest.
C7_MissingSkillCreated ==
    (Ran /\ ~last.pre.skill.exists /\ ~WarnedFs) =>
        /\ fs.dir
        /\ fs.skill = File(Utf8Encode(last.tpl))
        /\ Utf8Decode(fs.skill.bytes) = last.tpl
        /\ fs.latest = last.pre.latest
        /\ last.log[1] = Log("log", <<"[pipedrive] Created skill template: ", SkillFilePath>>)

\* a run on a machine without the directory, with a two-byte character
C7_Witness ==
    /\ Ran /\ ~last.pre.dir /\ ~WarnedFs
    /\ last.tpl = <<"e'">>
    /\ fs.skill = File(<<"C3", "A9">>)
    /\ ~fs.latest.exists

\* C8: when SKILL.md exists with exactly the bytes of the bundled
\* template, the run writes nothing: SKILL.md and an existing .latest are
\* unchanged and no file is created.
C8_IdenticalSkillNoWrite ==
    (Ran /\ last.pre.skill.exists /\ last.pre.skill.bytes = Utf8Encode(last.tpl)) =>
        fs = last.pre

\* an identical SKILL.md with a two-byte character, beside a stale .latest
C8_Witness ==
    /\ Ran /\ last.fault = "none"
    /\ last.tpl = <<"e'">>
    /\ last.pre.skill = File(<<"C3", "A9">>)
    /\ last.pre.latest.exists
    /\ fs = last.pre

\* C9: when SKILL.md exists and differs from the bundled template (and no
\* filesystem call of the run fails), afterwards SKILL.md.latest holds
\* exactly the bundled template, whatever it held before, SKILL.md is as
\* it was, and the run reports the new template.
C9_DifferingSkillOffersLatest ==
    (Ran /\ last.pre.skill.exists /\ last.pre.skill.bytes # Utf8Encode(last.tpl) /\ ~WarnedFs) =>
        /\ fs.latest = File(Utf8Encode(last.tpl))
        /\ fs.skill = last.pre.skill
        /\ Log("log", <<"[pipedrive] New template available: ", LatestFilePath>>) \in Range(last.log)

\* a stale .latest replaced by a longer template
C9_Witness ==
    /\ Ran /\ ~WarnedFs
    /\ last.pre.skill = File(<<"C3">>)
    /\ last.pre.latest = File(<<"b">>)
    /\ fs.latest = File(<<"a", "b">>)

\* apiKey and domain (or siteUrl) are present and non-empty
ValidConfig ==
    IF pluginConfig.t # "object" THEN FALSE
    ELSE LET obj == pluginConfig.a[1] IN
         /\ Truthy(Get(obj, "apiKey"))
         /\ Truthy(Get(obj, "domain")) \/ Truthy(Get(obj, "siteUrl"))

\* C10: a filesystem error at any step of the scaffolder is logged as a
\* warning and does not leave register; with a valid configuration every
\* tool is registered afterwards.
C10_FsErrorCaught ==
    (Ran /\ last.fsError) =>
        /\ WarnedFs
        /\ last.outcome # "threw_fs_error"
        /\ ValidConfig =>
             /\ last.outcome = "returned"
             /\ Len(registered) = Cardinality(ToolNames)
             /\ Range(registered) = ToolNames

\* a write that failed part way, under a valid configuration
C10_Witness ==
    /\ Ran /\ last.fsError /\ last.fault = "write"
    /\ fs.skill = File(<<"C3">>)
    /\ ValidConfig
    /\ Len(registered) = Len(ToolTable)

-----------------------------------------------------------------------------
(* Properties of registration, checked under SpecScaffold.                 *)

\* the configuration is an object whose field k is a non-empty string
HasText(k) ==
    /\ pluginConfig.t = "object"
    /\ Get(pluginConfig.a[1], k).t = "string"
    /\ Get(pluginConfig.a[1], k).s # <<>>

ConfigWarning ==
    Log("warn", <<"[pipedrive] Plugin not configured: missing apiKey or domain/siteUrl">>)

\* C11: when the configuration object lacks a non-empty apiKey, or lacks
\* both a non-empty domain and a non-empty siteUrl, register logs the
\* warning and registers no tool; with an apiKey and one of the two
\* present it registers tools.
C11_RegistersOnlyWhenConfigured ==
    (Ran /\ pluginConfig.t = "object") =>
        IF HasText("apiKey") /\ (HasText("domain") \/ HasText("siteUrl"))
        THEN registered # <<>> /\ ConfigWarning \notin Range(last.log)
        ELSE registered = <<>> /\ ConfigWarning \in Range(last.log)

\* a run with an API key and an empty domain, and no siteUrl
C11_Witness ==
    /\ Ran
    /\ HasText("apiKey") /\ ~HasText("domain") /\ ~HasText("siteUrl")
    /\ Get(pluginConfig.a[1], "domain") = JStr(<<>>)
    /\ registered = <<>>
    /\ ConfigWarning \in Range(last.log)

\* C12: register returns normally for every value of pluginConfig, the
\* absent (undefined or null) configuration included.
C12_RegisterNeverThrows ==
    Ran => last.outcome = "returned"

-----------------------------------------------------------------------------
(* Properties of the requests, checked under SpecTools.                    *)

\* the host of a request URL: what stands between the scheme and the path
HostOf(url) ==
    LET v2 == IndexOf(url, "/api/v2")
        v1 == IndexOf(url, "/api/v1")
        p  == IF v2 = 0 THEN v1 ELSE IF v1 = 0 THEN v2 ELSE IF v1 < v2 THEN v1 ELSE v2
    IN  SubSeq(url, 2, p - 1)

\* the text of field k of the configuration object
ConfigText(k) == Get(pluginConfig.a[1], k).s

\* C13: the host of every request is <domain>.pipedrive.com when domain
\* is set and non-empty, and <siteUrl>.pipedrive.com when only siteUrl is;
\* when both are set, domain is the one used.
C13_HostFromDomainOrSiteUrl ==
    Invoked =>
        /\ last.req.url[1] = "https://"
        /\ HostOf(last.req.url) =
             (IF HasText("domain") THEN ConfigText("domain") ELSE ConfigText("siteUrl"))
             \o <<".pipedrive.com">>

\* a request under a configuration that sets both names
C13_Witness ==
    /\ Invoked
    /\ HasText("domain") /\ HasText("siteUrl")
    /\ ConfigText("domain") # ConfigText("siteUrl")
    /\ HostOf(last.req.url) = ConfigText("domain") \o <<".pipedrive.com">>

-----------------------------------------------------------------------------
(* The registered tools against the README, checked under SpecScaffold.    *)

\* "## Available Tools (35)"
ListedCount == 35

\* the tools the README lists
ReadmeTools ==
    { "pipedrive_search_deals", "pipedrive_get_deal", "pipedrive_list_deals",
      "pipedrive_create_deal", "pipedrive_update_deal", "pipedrive_delete_deal",
      "pipedrive_search_persons", "pipedrive_get_person", "pipedrive_list_persons",
      "pipedrive_create_person", "pipedrive_update_person", "pipedrive_delete_person",
      "pipedrive_search_organizations", "pipedrive_get_organization", "pipedrive_list_organizations",
      "pipedrive_create_organization", "pipedrive_update_organization", "pipedrive_delete_organization",
      "pipedrive_list_activities", "pipedrive_get_activity", "pipedrive_create_activity",
      "pipedrive_update_activity", "pipedrive_delete_activity", "pipedrive_list_pipelines",
      "pipedrive_get_pipeline", "pipedrive_list_stages", "pipedrive_get_stage",
      "pipedrive_list_notes", "pipedrive_get_note", "pipedrive_create_note",
      "pipedrive_update_note", "pipedrive_delete_note", "pipedrive_list_users",
      "pipedrive_get_current_user", "pipedrive_get_user" }

\* C14: with a valid configuration one run of register registers exactly
\* the 35 tools the README lists: none is missing, none is unlisted, and
\* no name is registered twice.
C14_RegistersTheListedTools ==
    (Ran /\ HasText("apiKey") /\ (HasText("domain") \/ HasText("siteUrl"))) =>
        /\ Cardinality(ReadmeTools) = ListedCount
        /\ Len(registered) = ListedCount
        /\ Range(registered) = ReadmeTools
        /\ \A i, j \in 1..Len(registered) : registered[i] = registered[j] => i = j

\* a run under a configuration that names the tenant by siteUrl, on a
\* directory the scaffolder cannot create
C14_Witness ==
    /\ Ran /\ HasText("apiKey") /\ ~HasText("domain") /\ HasText("siteUrl")
    /\ last.fault = "mkdir"
    /\ Len(registered) = ListedCount
    /\ registered[1] = "pipedrive_search_deals"
    /\ registered[ListedCount] = "pipedrive_get_user"

-----------------------------------------------------------------------------
(* Properties of the invocation's result, checked under SpecTools.         *)

\* the remote service has answered the invocation
Answered == last.op = "invoke" /\ last.outcome = "done"

\* C15: for every tool, when the remote service answers 2xx with a JSON
\* body, the result is an envelope whose content is exactly one element
\* of type "text", whose text is the serialization of the parsed response
\* and reads back as the same value: no member added, removed or changed.
C15_EnvelopeIsParsedResponse ==
    (/\ Answered
     /\ last.resp.status \in 200..299
     /\ JsonParse(last.resp.text).ok) =>
        /\ last.result.kind = "envelope"
        /\ Len(last.result.content) = 1
        /\ last.result.content[1].type = "text"
        /\ last.result.content[1].text =
             JsonStringifyPretty(JsonParse(last.resp.text).value)
        /\ JsonParse(last.result.content[1].text) = JsonParse(last.resp.text)

\* a legacy tool answered 299 with an object of two members, one of them null
C15_Witness ==
    /\ Answered
    /\ last.tool = "pipedrive_delete_note"
    /\ last.resp.status = 299
    /\ JsonParse(last.resp.text).ok
    /\ Get(JsonParse(last.resp.text).value.a[1], "\"data\"") = JNull
    /\ Len(JsonParse(last.resp.text).value.a[1]) = 2
    /\ last.result.content[1].text =
         <<"{", "\n", "  ", "\"success\"", ":", " ", "true", ",", "\n",
           "  ", "\"data\"", ":", " ", "null", "\n", "}">>

\* the number of times call c occurs in the network calls of the invocation
NetCount(c) == Cardinality({i \in 1..Len(last.net) : last.net[i] = c})

\* C16: each tool invocation issues exactly one outbound HTTP request,
\* whether the response is a success or a failure: nothing is retried.
C16_OneRequestPerInvocation ==
    Invoked => NetCount("fetch") = 1

\* an invocation that ended with the error of a 404 response
C16_Witness ==
    /\ Answered
    /\ last.resp.status = 404
    /\ last.result.kind = "error"
    /\ last.net = <<"fetch", "res.text">>

\* the API version in the path of the request URL
RoutedTo(version) == version \in Range(last.req.url)

\* C17: every update tool routed to /api/v2 (deal, person, organization,
\* activity) sends PATCH and the update tool routed to /api/v1 (note)
\* sends PUT; no update pairs PUT with /api/v2 or PATCH with /api/v1.
C17_UpdateVerbFollowsVersion ==
    (Invoked /\ last.tool \in UpdateToolNames) =>
        /\ RoutedTo("/api/v2") # RoutedTo("/api/v1")
        /\ RoutedTo("/api/v1") <=> last.tool = "pipedrive_update_note"
        /\ RoutedTo("/api/v2") => last.req.method = "PATCH"
        /\ RoutedTo("/api/v1") => last.req.method = "PUT"

\* an update of a note
C17_Witness ==
    /\ Invoked /\ last.tool = "pipedrive_update_note"
    /\ RoutedTo("/api/v1")
    /\ last.req.method = "PUT"
    /\ last.req.hasBody

-----------------------------------------------------------------------------
(* The order of the steps of register, checked under SpecScaffold.         *)

\* step a of the run comes before every step b of the run
Precedes(a, b) ==
    \A i, j \in 1..Len(last.steps) :
        (last.steps[i] = a /\ last.steps[j] = b) => i < j

\* C18: in every run of register the configuration is validated first,
\* then the tools are registered, then the skill file is scaffolded; no
\* filesystem action of the scaffolder precedes validation or registration.
C18_ValidateRegisterThenScaffold ==
    Ran =>
        /\ Precedes("validate", "registerTools")
        /\ Precedes("validate", "scaffold")
        /\ Precedes("registerTools", "scaffold")

-----------------------------------------------------------------------------
(* The configuration after registration, checked under SpecHost.           *)

\* the text of field k of the configuration object as register read it
RegisteredText(k) == Get(closure.atRegister.a[1], k).s

\* the pairs of the query of the request URL
RequestQuery == ParseQuery(UrlParse(last.req.url).search)

\* C19: the configuration is read once at registration: when the host
\* changes apiKey, domain or siteUrl of the configuration object after
\* register has returned, the host and the api_token of every later
\* request are still the values present at registration.
C19_ConfigurationReadOnce ==
    Invoked =>
        /\ HostOf(last.req.url) =
             (IF RegisteredText("domain") # <<>>
              THEN RegisteredText("domain") ELSE RegisteredText("siteUrl"))
             \o <<".pipedrive.com">>
        /\ QueryValues(RequestQuery, <<"api_token">>) = {RegisteredText("apiKey")}

-----------------------------------------------------------------------------
(* The api_token of the request URL, checked under SpecTools.              *)

\* the pairs of the query the tool built into the endpoint
BuiltQuery == ParseQuery(UrlParse(last.call.endpoint).search)

\* the pairs of a query whose name is not api_token, in order
Other(q) == SelectSeq(q, LAMBDA p : p.k # <<"api_token">>)

\* C20 as stated: every request URL carries api_token exactly once, with
\* the configured API token as its value, together with every query
\* parameter the tool built, also when the parameters of a list tool
\* hold a key named api_token.
C20_TokenOnceWithEveryBuiltPair ==
    Invoked =>
        /\ QueryCount(RequestQuery, <<"api_token">>) = 1
        /\ QueryValues(RequestQuery, <<"api_token">>) = {ConfigText("apiKey")}
        /\ \A i \in 1..Len(BuiltQuery) : BuiltQuery[i] \in Range(RequestQuery)

\* C20, amended: every request URL carries api_token exactly once, with
\* the configured API token as its value, together with every query
\* parameter the tool built under another name, in the tool's order; an
\* api_token the tool built from its parameters is replaced.
C20_TokenOnceReplacingBuiltToken ==
    Invoked =>
        /\ QueryCount(RequestQuery, <<"api_token">>) = 1
        /\ QueryValues(RequestQuery, <<"api_token">>) = {ConfigText("apiKey")}
        /\ Other(RequestQuery) = Other(BuiltQuery)

\* a list tool whose parameters hold an api_token of their own
C20_Witness ==
    /\ Invoked /\ last.tool \in ListToolNames
    /\ QueryCount(BuiltQuery, <<"api_token">>) = 1
    /\ QueryValues(BuiltQuery, <<"api_token">>) # {ConfigText("apiKey")}
    /\ Len(BuiltQuery) > 1
    /\ QueryCount(RequestQuery, <<"api_token">>) = 1
    /\ QueryValues(RequestQuery, <<"api_token">>) = {ConfigText("apiKey")}

-----------------------------------------------------------------------------
(* Concurrent invocations, checked under SpecConcurrent.                   *)

\* the request invocation i would send, and the result it would return,
\* were it the only invocation
AloneRequest(i) ==
    PipedriveRequest(closure, Get(pluginConfig.a[1], "apiKey"),
                     Execute(ToolByName(flights[i].tool), flights[i].params))

AloneResult(i) == Outcome(flights[i].resp)

-----------------------------------------------------------------------------
(* The installer, checked under SpecInstall.                               *)

\* C22: install.sh overwrites no existing file: a file that exists under
\* the skill directory before the script runs has the same contents after
\* the script has finished.
C22_InstallKeepsExistingFiles ==
    last.op = "install" =>
        /\ last.pre.skill.exists  => fs.skill  = last.pre.skill
        /\ last.pre.latest.exists => fs.latest = last.pre.latest

-----------------------------------------------------------------------------
(* The errors of an invocation, checked under SpecTools.                   *)

\* C23: every invocation ends either with the content envelope or with
\* the error "Pipedrive API error (<status>): <body>", and every 2xx
\* response ends with an envelope whatever its body, an empty or non-JSON
\* body included.
C23_OnlyApiErrors ==
    Answered =>
        /\ \/ last.result.kind = "envelope"
           \/ /\ last.result.kind = "error"
              /\ last.result.message =
                   <<"Pipedrive API error (">> \o StringOf(JNum(last.resp.status))
                   \o <<"): ">> \o last.resp.text
        /\ last.resp.status \in 200..299 => last.result.kind = "envelope"

-----------------------------------------------------------------------------
(* The closing log line of register, checked under SpecScaffold.           *)

\* the tools of the run that were registered for the given API version
RegisteredFor(useV1) ==
    {i \in 1..Len(registered) : ToolByName(registered[i]).useV1 = useV1}

\* the line register would log were its counts those of the registered tools
CountedLine ==
    Log("log", <<"[pipedrive] Registered ">> \o Digits(Len(registered))
               \o <<" tools (">> \o Digits(Cardinality(RegisteredFor(FALSE)))
               \o <<" v2, ">> \o Digits(Cardinality(RegisteredFor(TRUE)))
               \o <<" v1) for ">> \o StringOf(closure.domain) \o <<".pipedrive.com">>)

\* C24: the counts register logs on success (total, v2, v1) equal the
\* number of tools it registered in that run, in total and per version.
C24_LoggedCountsAreRegistered ==
    (Ran /\ registered # <<>>) => CountedLine \in Range(last.log)

-----------------------------------------------------------------------------
(* The search tools, checked under SpecTools.                              *)

SearchToolNames ==
    {"pipedrive_search_deals", "pipedrive_search_persons", "pipedrive_search_organizations"}

\* the optional filters of a search tool
SearchFilters(tool) ==
    IF tool = "pipedrive_search_deals" THEN {"status", "limit"} ELSE {"limit"}

\* C25: for every search tool the query string holds term with the given
\* value, and holds limit (and status, for deals) with its string
\* coercion exactly when that parameter was provided, limit 0 and the
\* empty status included.
C25_SearchQueryExactlyProvided ==
    (Invoked /\ last.tool \in SearchToolNames) =>
        /\ QueryCount(BuiltQuery, <<"term">>) = 1
        /\ QueryValues(BuiltQuery, <<"term">>) = {StringOf(Get(last.params, "term"))}
        /\ \A k \in SearchFilters(last.tool) :
             IF k \in ProvidedKeys(last.params)
             THEN /\ QueryCount(BuiltQuery, <<k>>) = 1
                  /\ QueryValues(BuiltQuery, <<k>>) = {StringOf(Get(last.params, k))}
             ELSE QueryCount(BuiltQuery, <<k>>) = 0

-----------------------------------------------------------------------------
(* The scaffolder beside another writer, checked under SpecRace.           *)

\* C26: the scaffolder never overwrites a SKILL.md written by another
\* process, under every interleaving of its steps with that write: what
\* the other process wrote is what SKILL.md holds, also when it was
\* written between the scaffolder's existence check and its write.
C26_OtherSkillSurvives ==
    (last.op \in {"idle", "scaffold"} /\ last.other.exists) => fs.skill = last.other

====
